---- MODULE Spec2Model ----
(***************************************************************************)
(* A model of the AI resume scanner: the regex heuristics and the composite *)
(* scorer of utils/ml_scorer.py, the document statistics and the text       *)
(* extraction of utils/document_processor.py and utils/pdf_processor.py,    *)
(* and the batch loop of main.py (process_resumes).                         *)
(*                                                                         *)
(* Texts are TLA+ strings handled character by character (Len, SubSeq, \o). *)
(* A Python float in [0, 1] is an integer number of millionths (Scale); a   *)
(* reported score, round(x * 100, 2), is an integer number of hundredths of *)
(* a percent (0 .. 10000).                                                  *)
(***************************************************************************)
EXTENDS Integers, Sequences, FiniteSets, TLC

VARIABLES
    text,             \* SpecText: the argument of the pure text function
    op,               \* SpecText: the function last applied to text ("" = none)
    ret,              \* SpecText: what that call returned
    ml_scorer,        \* the MLScorer object: the state of its one TfidfVectorizer
    job_desc,         \* SpecScore: first argument of the last calculate_advanced_scores
    resume,           \* SpecScore: second argument of that call
    scores,           \* SpecScore: the outcome of that call (a ScoreRecord or a raise)
    calls,            \* the number of calculate_advanced_scores calls made on ml_scorer
    job_description,  \* Spec: the text area of main()
    uploaded_files,   \* Spec: the files of st.file_uploader
    pc,               \* Spec: position of main(): "idle", "loop", "done", "error"
    idx,              \* Spec: number of files process_resumes has consumed
    results,          \* Spec: the local list `results` of process_resumes
    ranked,           \* Spec: the list process_resumes returned (display_results' input)
    st_error          \* Spec: the messages main() passed to st.error

vars == <<text, op, ret, ml_scorer, job_desc, resume, scores, calls,
          job_description, uploaded_files, pc, idx, results, ranked, st_error>>

textVars == <<text, op, ret>>
scoreVars == <<job_desc, resume, scores, calls>>
batchVars == <<job_description, uploaded_files, pc, idx, results, ranked, st_error>>

(***************************************************************************)
(* Bounds of the model.                                                     *)
(***************************************************************************)
\* largest year count written in an experience text
MaxYears == 16
\* pieces concatenated into an education text
MaxEduPieces == 3
\* phrases joined into a job description or resume of the scorer
MaxPhrases == 2
\* files uploaded in one batch
MaxFiles == 3
\* calls made on one MLScorer object in SpecReuse
MaxCalls == 2

\* one float unit: a Python float x in [0, 1] is the integer x * Scale
Scale == 1000 * 1000

(***************************************************************************)
(* Characters and strings.  The helpers that walk a string are functions:   *)
(* a function is applied to the value of its argument, so a position or a   *)
(* lowered text is computed once, however often the walk reads it.          *)
(***************************************************************************)
\* the element of a one-element set: ValueOf({e(v) : v \in {x}}) is e(x), with x
\* evaluated once
ValueOf(S) == CHOOSE x \in S : TRUE

Ch(s, i) == SubSeq(s, i, i)

UpperChars == "ABCDEFGHIJKLMNOPQRSTUVWXYZ"
LowerChars == "abcdefghijklmnopqrstuvwxyz"
DigitChars == "0123456789"

IndexIn(alphabet, c) ==
    IF \E i \in 1..Len(alphabet) : Ch(alphabet, i) = c
    THEN CHOOSE i \in 1..Len(alphabet) : Ch(alphabet, i) = c
    ELSE 0

IsDigit(c) == IndexIn(DigitChars, c) > 0
\* \s of the re module, over the whitespace the texts contain
IsSpace(c) == c \in {" ", "\n", "\t"}
\* \w of the re module: letters, digits, underscore
IsWordChar(c) ==
    \/ IndexIn(LowerChars, c) > 0
    \/ IndexIn(UpperChars, c) > 0
    \/ IsDigit(c)
    \/ c = "_"

LowerCh[c \in STRING] ==
    IF IndexIn(UpperChars, c) > 0 THEN Ch(LowerChars, IndexIn(UpperChars, c)) ELSE c

\* str.lower()
lower[s \in STRING] == IF s = "" THEN "" ELSE LowerCh[Head(s)] \o lower[Tail(s)]

\* s[i:i+len(w)] == w, positions from 1
StartsWithAt(s, i, w) ==
    /\ i >= 1
    /\ i + Len(w) - 1 <= Len(s)
    /\ SubSeq(s, i, i + Len(w) - 1) = w

\* Python's `w in s`
Contains[s \in STRING, w \in STRING] == \E i \in 1..(Len(s) + 1) : StartsWithAt(s, i, w)

\* str.endswith
EndsWith[s \in STRING, w \in STRING] ==
    Len(w) <= Len(s) /\ SubSeq(s, Len(s) - Len(w) + 1, Len(s)) = w

\* str.strip()
strip[s \in STRING] ==
    IF s = "" THEN ""
    ELSE IF IsSpace(Head(s)) THEN strip[Tail(s)]
    ELSE IF IsSpace(Ch(s, Len(s))) THEN strip[SubSeq(s, 1, Len(s) - 1)]
    ELSE s

\* int(y) of a string of decimal digits
ParseInt[s \in STRING] ==
    IF s = "" THEN 0
    ELSE 10 * ParseInt[SubSeq(s, 1, Len(s) - 1)] + (IndexIn(DigitChars, Ch(s, Len(s))) - 1)

\* str(n) of a natural number
ToStr[n \in Nat] ==
    IF n < 10 THEN Ch(DigitChars, n + 1)
    ELSE ToStr[n \div 10] \o Ch(DigitChars, (n % 10) + 1)

Max(S) == CHOOSE x \in S : \A y \in S : y <= x
Min2(a, b) == IF a <= b THEN a ELSE b

\* max() of a non-empty list of numbers
Max2[a \in Int, b \in Int] == IF a >= b THEN a ELSE b
SeqMax[l \in Seq(Int)] == IF Len(l) = 1 THEN l[1] ELSE Max2[l[1], SeqMax[Tail(l)]]

\* set() of a list
ToSet(l) == {l[i] : i \in 1..Len(l)}

SkipDigits[s \in STRING, i \in Nat] ==
    IF i <= Len(s) /\ IsDigit(Ch(s, i)) THEN SkipDigits[s, i + 1] ELSE i

SkipSpaces[s \in STRING, i \in Nat] ==
    IF i <= Len(s) /\ IsSpace(Ch(s, i)) THEN SkipSpaces[s, i + 1] ELSE i

SkipWord[s \in STRING, i \in Nat] ==
    IF i <= Len(s) /\ ~IsSpace(Ch(s, i)) THEN SkipWord[s, i + 1] ELSE i

SkipWordChars[s \in STRING, i \in Nat] ==
    IF i <= Len(s) /\ IsWordChar(Ch(s, i)) THEN SkipWordChars[s, i + 1] ELSE i

(***************************************************************************)
(* MLScorer.extract_skills: re.findall(tech_patterns, text.lower()), then   *)
(* list(set(...)).                                                          *)
(***************************************************************************)
\* the alternatives of tech_patterns, in the order the regex lists them
tech_patterns ==
    << "python", "java", "javascript", "c++", "ruby", "php", "sql", "html",
       "css", "react", "angular", "vue", "node.js", "docker", "kubernetes",
       "aws", "azure", "git", "machine learning", "deep learning", "ai", "nlp" >>

\* \b between positions i-1 and i of s
WordBoundary(s, i) ==
    (i > 1 /\ i - 1 <= Len(s) /\ IsWordChar(Ch(s, i - 1)))
        # (i >= 1 /\ i <= Len(s) /\ IsWordChar(Ch(s, i)))

\* the alternatives that match at position i and end at a word boundary
SkillFits(s, i) ==
    {k \in 1..Len(tech_patterns) :
        /\ StartsWithAt(s, i, tech_patterns[k])
        /\ WordBoundary(s, i + Len(tech_patterns[k]))}

\* the alternative \b(a1|a2|...)\b matches with at position i (0: no match): the
\* first one, in the regex's order, that is followed by a word boundary
MatchSkillAt[s \in STRING, i \in Nat] ==
    IF WordBoundary(s, i) /\ SkillFits(s, i) # {}
    THEN CHOOSE k \in SkillFits(s, i) : \A m \in SkillFits(s, i) : k <= m
    ELSE 0

\* the scan of re.findall from position i, where alternative k (or none) matches
FindSkillsFrom[s \in STRING, i \in Nat, k \in Nat] ==
    IF i > Len(s) THEN << >>
    ELSE IF k > 0
    THEN <<tech_patterns[k]>>
         \o FindSkillsFrom[s, i + Len(tech_patterns[k]),
                           MatchSkillAt[s, i + Len(tech_patterns[k])]]
    ELSE FindSkillsFrom[s, i + 1, MatchSkillAt[s, i + 1]]

\* re.findall(tech_patterns, s): the non-overlapping matches, scanning from the left
FindSkills[s \in STRING] == FindSkillsFrom[s, 1, MatchSkillAt[s, 1]]

\* list(a set of skills): each element once (here in the order of tech_patterns)
SetToList[S \in SUBSET ToSet(tech_patterns), k \in Nat] ==
    IF k > Len(tech_patterns) THEN << >>
    ELSE (IF tech_patterns[k] \in S THEN <<tech_patterns[k]>> ELSE << >>)
         \o SetToList[S, k + 1]

extract_skills(t) == SetToList[ToSet(FindSkills[lower[t]]), 1]

(***************************************************************************)
(* MLScorer.extract_education                                               *)
(***************************************************************************)
education_scores ==
    << [level |-> "phd",       score |-> Scale],
       [level |-> "master",    score |-> (8 * Scale) \div 10],
       [level |-> "bachelor",  score |-> (6 * Scale) \div 10],
       [level |-> "associate", score |-> (4 * Scale) \div 10] >>

\* the value returned when no level is found
education_baseline == (3 * Scale) \div 10

\* the list found_scores after the loop over education_scores.items(), from item k
education_found[text_lower \in STRING, k \in Nat] ==
    IF k > Len(education_scores) THEN << >>
    ELSE (IF \/ Contains[text_lower, education_scores[k].level]
             \/ Contains[text_lower, education_scores[k].level \o "'s"]
          THEN <<education_scores[k].score>> ELSE << >>)
         \o education_found[text_lower, k + 1]

\* max(found_scores) if found_scores else the default
max_or[found_scores \in Seq(Int), default \in Int] ==
    IF found_scores # << >> THEN SeqMax[found_scores] ELSE default

\* a faulty variant of extract_education: no keyword scores 0 instead of 0.3
extract_education_baseline_zero(t) == max_or[education_found[lower[t], 1], 0]

extract_education(t) == max_or[education_found[lower[t], 1], education_baseline]

(***************************************************************************)
(* MLScorer.extract_experience: the pattern                                 *)
(*   (\d+)[\+]?\s*(?:years?|yrs?)(?:\s+of)?\s+(?:experience|exp)            *)
(* matched as the regex engine does, greedily at every quantifier (no other *)
(* choice of this pattern can succeed where the greedy one fails).  Each    *)
(* stage takes the start i of the attempt, the end d of its digits and the  *)
(* position reached.                                                        *)
(***************************************************************************)
NoMatch == [ok |-> FALSE, group |-> "", end |-> 0]

\* (?:experience|exp) at x, after the \s+ that started at o
MatchTail[s \in STRING, i \in Nat, d \in Nat, o \in Nat, x \in Nat] ==
    IF x > o /\ StartsWithAt(s, x, "experience")
    THEN [ok |-> TRUE, group |-> SubSeq(s, i, d - 1), end |-> x + 10]
    ELSE IF x > o /\ StartsWithAt(s, x, "exp")
    THEN [ok |-> TRUE, group |-> SubSeq(s, i, d - 1), end |-> x + 3]
    ELSE NoMatch

\* (?:\s+of)? after the unit that ended at y, w being the end of the whitespace
MatchOf[s \in STRING, i \in Nat, d \in Nat, y \in Nat, w \in Nat] ==
    IF w > y /\ StartsWithAt(s, w, "of")
    THEN MatchTail[s, i, d, w + 2, SkipSpaces[s, w + 2]]
    ELSE MatchTail[s, i, d, y, w]

\* (?:years?|yrs?) at u
MatchUnit[s \in STRING, i \in Nat, d \in Nat, u \in Nat] ==
    IF StartsWithAt(s, u, "years") THEN MatchOf[s, i, d, u + 5, SkipSpaces[s, u + 5]]
    ELSE IF StartsWithAt(s, u, "year") THEN MatchOf[s, i, d, u + 4, SkipSpaces[s, u + 4]]
    ELSE IF StartsWithAt(s, u, "yrs") THEN MatchOf[s, i, d, u + 3, SkipSpaces[s, u + 3]]
    ELSE IF StartsWithAt(s, u, "yr") THEN MatchOf[s, i, d, u + 2, SkipSpaces[s, u + 2]]
    ELSE NoMatch

\* [\+]?\s* after the digits i .. d-1
MatchPlus[s \in STRING, i \in Nat, d \in Nat] ==
    IF d = i THEN NoMatch
    ELSE MatchUnit[s, i, d, SkipSpaces[s, IF StartsWithAt(s, d, "+") THEN d + 1 ELSE d]]

\* the match of the pattern that starts at position i
MatchExperienceAt[s \in STRING, i \in Nat] == MatchPlus[s, i, SkipDigits[s, i]]

\* what an attempt at one position yields: whether the pattern matches there, its
\* group and the position behind the match
MatchResults == [ok : BOOLEAN, group : STRING, end : Nat]

\* the scan of re.findall from position i, where m is the match attempted at i
FindExperienceFrom[s \in STRING, i \in Nat, m \in MatchResults] ==
    IF i > Len(s) THEN << >>
    ELSE IF m.ok
    THEN <<m.group>> \o FindExperienceFrom[s, m.end, MatchExperienceAt[s, m.end]]
    ELSE FindExperienceFrom[s, i + 1, MatchExperienceAt[s, i + 1]]

\* re.findall(pattern, s): the captured digit strings of the non-overlapping matches
FindExperience[s \in STRING] == FindExperienceFrom[s, 1, MatchExperienceAt[s, 1]]

\* the cap of the normalisation, in years
experience_cap == 15

\* min(years / 15.0, 1.0) for the largest of the year counts, 0.0 for no match
experience_score_of[years \in Seq(Int)] ==
    IF years # << >>
    THEN Min2((SeqMax[years] * Scale) \div experience_cap, Scale)
    ELSE 0

\* [int(y) for y in matches]
IntList[matches \in Seq(STRING)] == [k \in 1..Len(matches) |-> ParseInt[matches[k]]]

\* a faulty variant of extract_experience: the first match instead of the maximum
extract_experience_first_match(t) ==
    ValueOf({experience_score_of[IF years = << >> THEN years ELSE <<Head(years)>>] :
                years \in {IntList[FindExperience[lower[t]]]}})

extract_experience(t) == experience_score_of[IntList[FindExperience[lower[t]]]]

(***************************************************************************)
(* get_document_stats of DocumentProcessor and of PDFProcessor              *)
(***************************************************************************)
\* str.split() from position a, the start of a word or the end of s
SplitFrom[s \in STRING, a \in Nat] ==
    IF a > Len(s) THEN << >>
    ELSE <<SubSeq(s, a, SkipWord[s, a] - 1)>>
         \o SplitFrom[s, SkipSpaces[s, SkipWord[s, a]]]

\* str.split(): the maximal runs of non-whitespace
split[s \in STRING] == SplitFrom[s, SkipSpaces[s, 1]]

\* the first position >= i of s that holds sep (Len(s) + 1: none)
FindChar[s \in STRING, sep \in STRING, i \in Nat] ==
    IF i <= Len(s) /\ Ch(s, i) # sep THEN FindChar[s, sep, i + 1] ELSE i

\* str.split(sep) for a one-character sep, from position i: the segments between
\* the separators
SplitOnFrom[s \in STRING, sep \in STRING, i \in Nat, e \in Nat] ==
    <<SubSeq(s, i, e - 1)>>
    \o (IF e > Len(s) THEN << >> ELSE SplitOnFrom[s, sep, e + 1, FindChar[s, sep, e + 1]])

split_on[s \in STRING, sep \in STRING] == SplitOnFrom[s, sep, 1, FindChar[s, sep, 1]]

SumLen[words \in Seq(STRING)] ==
    IF words = << >> THEN 0 ELSE Len(Head(words)) + SumLen[Tail(words)]

\* the dict of the statistics, from the two lists
stats_of[words \in Seq(STRING), sentences \in Seq(STRING), char_count \in Nat] ==
    [word_count      |-> Len(words),
     sentence_count  |-> Len(sentences),
     avg_word_length |-> IF words # << >> THEN (SumLen[words] * Scale) \div Len(words) ELSE 0,
     char_count      |-> char_count]

\* the statistics both classes compute; no statement of it raises on a str, so the
\* except branch of DocumentProcessor's is never taken
document_stats(t) == stats_of[split[t], split_on[t, "."], Len(t)]

DocumentProcessor_get_document_stats(t) == document_stats(t)

PDFProcessor_get_document_stats(t) == document_stats(t)

(***************************************************************************)
(* The TfidfVectorizer of MLScorer.__init__: stop_words='english',          *)
(* ngram_range=(1, 2), max_features=5000, and sklearn's defaults            *)
(* (lowercase, token_pattern \b\w\w+\b, smooth idf, l2 norm).  The bounded  *)
(* documents hold far fewer than max_features terms, so no term is cut.     *)
(***************************************************************************)
\* the words of sklearn's English stop list that the bounded texts contain
stop_words == {"the", "of", "and", "in", "with", "an", "to", "for", "is", "at", "on", "or"}

\* re.findall(r"\b\w\w+\b", s) from position i: the maximal runs of two or more
\* word characters
FindTokens[s \in STRING, i \in Nat] ==
    IF i > Len(s) THEN << >>
    ELSE IF ~IsWordChar(Ch(s, i)) THEN FindTokens[s, i + 1]
    ELSE (IF SkipWordChars[s, i] - i >= 2
          THEN <<SubSeq(s, i, SkipWordChars[s, i] - 1)>> ELSE << >>)
         \o FindTokens[s, SkipWordChars[s, i]]

\* the 1-grams, then the 2-grams of a list of tokens
ngrams[tokens \in Seq(STRING)] ==
    tokens \o [k \in 1..(Len(tokens) - 1) |-> tokens[k] \o " " \o tokens[k + 1]]

\* the analyzer: lowercase, tokenize, drop the stop words, then the n-grams
analyze[doc \in STRING] ==
    ngrams[SelectSeq(FindTokens[lower[doc], 1], LAMBDA w : w \notin stop_words)]

\* the number of times term t occurs in a list of terms
Count(terms, t) == Cardinality({k \in 1..Len(terms) : terms[k] = t})

\* idf(t)^2 in fortieths, for the two documents of a fit: idf = ln(3 / (1 + df)) + 1,
\* which is 1 when both documents hold t and 1.405 (squared: 79/40) when one does
IdfSq(df) == IF df >= 2 THEN 40 ELSE 79

\* TfidfVectorizer(...) before any fit
new_vectorizer == [fitted |-> FALSE, vocabulary_ |-> {}, idf_ |-> << >>]

\* the vocabulary and the idf weights learnt from the analyzed documents
fit_terms[analyzed \in Seq(Seq(STRING))] ==
    [fitted |-> TRUE,
     vocabulary_ |-> UNION {ToSet(analyzed[k]) : k \in DOMAIN analyzed},
     idf_ |-> [t \in UNION {ToSet(analyzed[k]) : k \in DOMAIN analyzed} |->
                  IdfSq(Cardinality({k \in DOMAIN analyzed : Count(analyzed[k], t) > 0}))]]

\* a faulty variant of fit: a fitted vectorizer keeps its vocabulary and idf
fit_keep_vocabulary(vec, documents) ==
    IF vec.fitted THEN vec
    ELSE fit_terms[[k \in DOMAIN documents |-> analyze[documents[k]]]]

\* the fit of fit_transform: vocabulary_ and idf_ are replaced by those of the
\* documents at hand, whatever the vectorizer held before
fit(vec, documents) == fit_terms[[k \in DOMAIN documents |-> analyze[documents[k]]]]

SumSeq[q \in Seq(Int)] == IF q = << >> THEN 0 ELSE Head(q) + SumSeq[Tail(q)]

\* the dot product of the unnormalised tf-idf rows of two analyzed documents: every
\* occurrence in ta of a term of the vocabulary adds the term's count in tb times
\* idf^2; a term outside the vocabulary has no column
row_dot(vec, ta, tb) ==
    SumSeq[[k \in 1..Len(ta) |->
               IF ta[k] \in vec.vocabulary_ THEN Count(tb, ta[k]) * vec.idf_[ta[k]] ELSE 0]]

\* the next decimal digit of a long-hand square root with root p so far and
\* current remainder c
SqrtDigit(p, c) == Max({x \in 0..9 : (20 * p + x) * x <= c})

\* long-hand square root: k more decimal digits of sqrt(A / D), given the root p so
\* far, its remainder r and the remainder rem of the division A / D
SqrtDigits[p \in Nat, r \in Nat, rem \in Nat, D \in Nat, k \in Nat] ==
    IF k = 0 THEN p
    ELSE SqrtDigits[10 * p + SqrtDigit(p, r * 100 + (rem * 100) \div D),
                    (r * 100 + (rem * 100) \div D)
                        - (20 * p + SqrtDigit(p, r * 100 + (rem * 100) \div D))
                          * SqrtDigit(p, r * 100 + (rem * 100) \div D),
                    (rem * 100) % D, D, k - 1]

\* floor(sqrt(A / D) * Scale) for 0 <= A <= D, D > 0
SqrtRatio[A \in Nat, D \in Nat] == SqrtDigits[A \div D, 0, A % D, D, 6]

\* dot / (|a| |b|), and 0 for a row of zeros
cosine_of[dot \in Nat, na \in Nat, nb \in Nat] ==
    IF na = 0 \/ nb = 0 THEN 0 ELSE SqrtRatio[dot * dot, na * nb]

\* cosine_similarity of the tf-idf rows of two documents under a fitted vectorizer
cosine_similarity(vec, a, b) ==
    ValueOf({cosine_of[row_dot(v, ta, tb), row_dot(v, ta, ta), row_dot(v, tb, tb)] :
                v \in {vec}, ta \in {analyze[a]}, tb \in {analyze[b]}})

(***************************************************************************)
(* MLScorer.calculate_advanced_scores                                       *)
(***************************************************************************)
\* round(x * 100, 2) of a float x given in millionths: hundredths of a percent
Round2(x) == (x + 50) \div 100

\* a faulty variant of skills_score_of: divided by the number of resume skills
skills_score_over_resume(job_skills, resume_skills) ==
    IF resume_skills # {}
    THEN (Cardinality(job_skills \cap resume_skills) * Scale) \div Cardinality(resume_skills)
    ELSE 0

\* len(job_skills.intersection(resume_skills)) / len(job_skills) if job_skills else 0.0
skills_score_of(job_skills, resume_skills) ==
    IF job_skills # {}
    THEN (Cardinality(job_skills \cap resume_skills) * Scale) \div Cardinality(job_skills)
    ELSE 0

\* a faulty variant of missing_skills_of: the difference taken the other way round
missing_skills_swapped(job_skills, resume_skills) == SetToList[resume_skills \ job_skills, 1]

\* list(job_skills - resume_skills)
missing_skills_of(job_skills, resume_skills) == SetToList[job_skills \ resume_skills, 1]

\* list(job_skills.intersection(resume_skills))
matched_skills_of(job_skills, resume_skills) == SetToList[job_skills \cap resume_skills, 1]

\* a faulty variant of weights: 0.4, 0.3, 0.2, 0.1
weights_miscopied ==
    [content_similarity |-> 4, skills_match |-> 3, education |-> 2, experience |-> 1]

\* the dict `weights`, in tenths
weights ==
    [content_similarity |-> 3, skills_match |-> 3, education |-> 2, experience |-> 2]

\* the dict `scores` of the four raw scores and the two skill sets
scores_dict(content_score, skills_score, education_score, experience_score, job_skills, resume_skills) ==
    [content_similarity |-> Round2(content_score),
     skills_match       |-> Round2(skills_score),
     education_level    |-> Round2(education_score),
     experience_level   |-> Round2(experience_score),
     overall_score      |->
         Round2((content_score * weights.content_similarity
                 + skills_score * weights.skills_match
                 + education_score * weights.education
                 + experience_score * weights.experience) \div 10),
     matched_skills     |-> matched_skills_of(job_skills, resume_skills),
     missing_skills     |-> missing_skills_of(job_skills, resume_skills)]

\* The outcome of one call on a scorer whose vectorizer is vec: the exception it
\* raises ("" when it returns), the vectorizer it leaves and the dict it returns.
\* fit_transform raises ValueError (empty vocabulary) before it stores anything.
calculate_advanced_scores(vec, jd, res) ==
    ValueOf({
        IF fitted.vocabulary_ = {}
        THEN [raised |-> "ValueError", vectorizer |-> vec, scores |-> << >>]
        ELSE [raised |-> "",
              vectorizer |-> fitted,
              scores |->
                ValueOf({scores_dict(content_score,
                                     skills_score_of(job_skills, resume_skills),
                                     education_score, experience_score,
                                     job_skills, resume_skills) :
                            content_score \in {cosine_similarity(fitted, jd, res)},
                            job_skills \in {ToSet(extract_skills(jd))},
                            resume_skills \in {ToSet(extract_skills(res))},
                            education_score \in {extract_education(res)},
                            experience_score \in {extract_experience(res)}})] :
        fitted \in {fit(vec, <<jd, res>>)}})

(***************************************************************************)
(* DocumentProcessor.extract_text.  An uploaded file is its name, whether   *)
(* the PDF/DOCX parser can read its bytes, and the text the parser yields.  *)
(***************************************************************************)
\* _extract_from_pdf and _extract_from_docx: the stripped text, or the parser's
\* exception re-raised
extract_from(file, kind) ==
    IF file.readable
    THEN [raised |-> "", text |-> strip[file.content]]
    ELSE [raised |-> "Error processing " \o kind, text |-> ""]

\* Path(filename).suffix of a plain file name: from its last dot on
suffix[filename \in STRING] ==
    IF \E k \in 2..Len(filename) : Ch(filename, k) = "."
    THEN SubSeq(filename, Max({k \in 2..Len(filename) : Ch(filename, k) = "."}),
                Len(filename))
    ELSE ""

\* a faulty variant of extract_by_extension: a .doc file goes to the DOCX parser
extract_doc_as_docx(file, filename) ==
    IF EndsWith[filename, ".pdf"] THEN extract_from(file, "PDF")
    ELSE IF EndsWith[filename, ".docx"] \/ EndsWith[filename, ".doc"]
    THEN extract_from(file, "DOCX")
    ELSE [raised |-> "Unsupported file format: " \o suffix[filename], text |-> ""]

\* the branch of extract_text on the lowered file name
extract_by_extension(file, filename) ==
    IF EndsWith[filename, ".pdf"] THEN extract_from(file, "PDF")
    ELSE IF EndsWith[filename, ".docx"] THEN extract_from(file, "DOCX")
    ELSE [raised |-> "Unsupported file format: " \o suffix[filename], text |-> ""]

\* the text of the file, or the exception extract_text raises: every exception of
\* the branch is wrapped into one "Error processing document: ..."
extract_text(file) ==
    ValueOf({IF inner.raised = "" THEN inner
             ELSE [raised |-> "Error processing document: " \o inner.raised, text |-> ""] :
                inner \in {extract_by_extension(file, lower[file.name])}})

(***************************************************************************)
(* process_resumes and the "Process Resumes" branch of main                 *)
(***************************************************************************)
overall(record) == record.scores.overall_score

\* x put into the ranked list l behind its first n elements
InsertAt(l, n, x) == SubSeq(l, 1, n) \o <<x>> \o SubSeq(l, n + 1, Len(l))

\* a faulty variant of sorted_by_overall_score: equal keys come out in reverse order
RECURSIVE sorted_ties_reversed(_)
sorted_ties_reversed(l) ==
    IF l = << >> THEN << >>
    ELSE ValueOf({InsertAt(rest,
                           Cardinality({k \in 1..Len(rest) : overall(rest[k]) > overall(x)}),
                           x) :
                     x \in {l[Len(l)]},
                     rest \in {sorted_ties_reversed(SubSeq(l, 1, Len(l) - 1))}})

RECURSIVE sorted_by_overall_score(_)
\* sorted(results, key=overall_score, reverse=True): a stable sort, so each element
\* goes behind every earlier one whose key is not smaller
sorted_by_overall_score(l) ==
    IF l = << >> THEN << >>
    ELSE ValueOf({InsertAt(rest,
                           Cardinality({k \in 1..Len(rest) : overall(rest[k]) >= overall(x)}),
                           x) :
                     x \in {l[Len(l)]},
                     rest \in {sorted_by_overall_score(SubSeq(l, 1, Len(l) - 1))}})

\* the resume texts and job descriptions of the batches
ResumeA == "Python developer, 5 years of experience"
ResumeB == "PhD, Python and AWS, 20 years experience"

FilePool ==
    { [name |-> "a.pdf",  readable |-> TRUE,  content |-> "  " \o ResumeA \o "\n"],
      [name |-> "b.docx", readable |-> TRUE,  content |-> ResumeB],
      [name |-> "C.PDF",  readable |-> TRUE,  content |-> ResumeA],
      [name |-> "d.pdf",  readable |-> FALSE, content |-> ""],
      [name |-> "e.doc",  readable |-> TRUE,  content |-> ResumeB],
      [name |-> "f.pdf",  readable |-> TRUE,  content |-> ""] }

JobDescriptions == {"Senior Python engineer, AWS and SQL", "to the"}

Batches == UNION {[1..n -> FilePool] : n \in 1..MaxFiles}

\* the user fills the text area
EnterJobDescription ==
    /\ pc = "idle"
    /\ \E jd \in JobDescriptions : job_description' = jd
    /\ UNCHANGED <<uploaded_files, pc, idx, results, ranked, st_error, ml_scorer>>
    /\ UNCHANGED <<textVars, scoreVars>>

\* the user picks the files of the uploader
Upload ==
    /\ pc = "idle"
    /\ \E files \in Batches : uploaded_files' = files
    /\ UNCHANGED <<job_description, pc, idx, results, ranked, st_error, ml_scorer>>
    /\ UNCHANGED <<textVars, scoreVars>>

\* "Process Resumes" is clicked: the script reruns, builds its MLScorer and enters
\* process_resumes
ClickProcess ==
    /\ pc = "idle"
    /\ uploaded_files # << >>
    /\ job_description # ""
    /\ pc' = "loop"
    /\ idx' = 0
    /\ results' = << >>
    /\ ml_scorer' = new_vectorizer
    /\ calls' = 0
    /\ UNCHANGED <<job_description, uploaded_files, ranked, st_error>>
    /\ UNCHANGED <<textVars, job_desc, resume, scores>>

\* an exception leaves process_resumes (its list is lost); main reports it
Fail(error) ==
    /\ pc' = "error"
    /\ st_error' = Append(st_error, [file |-> idx + 1, error |-> error])
    /\ results' = << >>
    /\ UNCHANGED <<idx, ranked, ml_scorer>>

\* One iteration of the loop of process_resumes, and after the last one the return
\* of the sorted list to display_results.
\* (extract_entities wraps a library that catches its own failures; its result is
\* no part of any ranking and is left out of the record.)
ProcessFile ==
    /\ pc = "loop"
    /\ idx < Len(uploaded_files)
    /\ \E file \in {uploaded_files[idx + 1]} :
       \E extracted \in {extract_text(file)} :
          IF extracted.raised # ""
          THEN Fail(extracted.raised) /\ calls' = calls
          ELSE \E call \in {calculate_advanced_scores(ml_scorer, job_description,
                                                      extracted.text)} :
               IF call.raised # ""
               THEN Fail(call.raised) /\ calls' = calls + 1
               ELSE /\ \E appended \in
                          {Append(results,
                                  [filename |-> file.name,
                                   text     |-> extracted.text,
                                   stats    |-> DocumentProcessor_get_document_stats(
                                                    extracted.text),
                                   scores   |-> call.scores])} :
                          /\ results' = appended
                          /\ IF idx + 1 = Len(uploaded_files)
                             THEN pc' = "done" /\ ranked' = sorted_by_overall_score(appended)
                             ELSE pc' = "loop" /\ ranked' = ranked
                    /\ idx' = idx + 1
                    /\ ml_scorer' = call.vectorizer
                    /\ calls' = calls + 1
                    /\ UNCHANGED st_error
    /\ UNCHANGED <<job_description, uploaded_files>>
    /\ UNCHANGED <<textVars, job_desc, resume, scores>>

NotCalled == [called |-> FALSE, raised |-> "", value |-> << >>]

Init ==
    /\ text = "" /\ op = "" /\ ret = 0
    /\ ml_scorer = new_vectorizer
    /\ job_desc = "" /\ resume = "" /\ scores = NotCalled /\ calls = 0
    /\ job_description = ""
    /\ uploaded_files = << >>
    /\ pc = "idle"
    /\ idx = 0
    /\ results = << >>
    /\ ranked = << >>
    /\ st_error = << >>

Next == EnterJobDescription \/ Upload \/ ClickProcess \/ ProcessFile

Spec == Init /\ [][Next]_vars

(***************************************************************************)
(* SpecScore: one call of calculate_advanced_scores on a new MLScorer, for  *)
(* every job description and resume made of at most MaxPhrases phrases.     *)
(***************************************************************************)
JoinPhrase(doc, phrase) == IF doc = "" THEN phrase ELSE doc \o " " \o phrase

RECURSIVE PhraseDocs(_, _)
\* the texts of at most n phrases, joined by blanks
PhraseDocs(phrases, n) ==
    IF n = 0 THEN {""}
    ELSE PhraseDocs(phrases, n - 1)
         \cup {JoinPhrase(d, p) : d \in PhraseDocs(phrases, n - 1), p \in phrases}

JobPhrases == {"Python, AWS, SQL", "the", "Java developer"}
ResumePhrases ==
    {"python", "Master's, 5 yrs exp", "AWS and Docker developer", "to",
     "PhD, 20 years of experience"}

JobDescs == PhraseDocs(JobPhrases, MaxPhrases)
Resumes == PhraseDocs(ResumePhrases, MaxPhrases)

\* what a call leaves in `scores`
Outcome(call) == [called |-> TRUE, raised |-> call.raised, value |-> call.scores]

InitScore ==
    /\ job_desc \in JobDescs
    /\ resume \in Resumes
    /\ scores = NotCalled
    /\ calls = 0
    /\ ml_scorer = new_vectorizer
    /\ text = "" /\ op = "" /\ ret = 0
    /\ job_description = "" /\ uploaded_files = << >> /\ pc = "idle" /\ idx = 0
    /\ results = << >> /\ ranked = << >> /\ st_error = << >>

\* ml_scorer.calculate_advanced_scores(job_desc, resume)
ScoreCall ==
    /\ ~scores.called
    /\ \E call \in {calculate_advanced_scores(ml_scorer, job_desc, resume)} :
          /\ scores' = Outcome(call)
          /\ ml_scorer' = call.vectorizer
    /\ calls' = calls + 1
    /\ UNCHANGED <<job_desc, resume>>
    /\ UNCHANGED <<textVars, batchVars>>

NextScore == ScoreCall

SpecScore == InitScore /\ [][NextScore]_vars

(***************************************************************************)
(* SpecReuse: any sequence of calls on one MLScorer object.                 *)
(***************************************************************************)
ReuseJobDescs == {"", "the", "Python, AWS, SQL", "Java developer", "Python developer"}
ReuseResumes ==
    {"", "to", "python", "AWS developer", "Master's, 5 yrs exp",
     "Java developer, PhD, 20 years of experience", "python AWS developer"}

\* ml_scorer.calculate_advanced_scores(jd, res), on the object as earlier calls left it
ReuseCall ==
    /\ calls < MaxCalls
    /\ calls' = calls + 1
    /\ \E jd \in ReuseJobDescs, res \in ReuseResumes :
       \E call \in {calculate_advanced_scores(ml_scorer, jd, res)} :
          /\ job_desc' = jd
          /\ resume' = res
          /\ scores' = Outcome(call)
          /\ ml_scorer' = call.vectorizer
    /\ UNCHANGED <<textVars, batchVars>>

NextReuse == ReuseCall

SpecReuse == Init /\ [][NextReuse]_vars

(***************************************************************************)
(* SpecText: the text functions applied to bounded texts.                   *)
(***************************************************************************)
RECURSIVE Concats(_, _)
\* the concatenations of at most n pieces
Concats(pieces, n) ==
    IF n = 0 THEN {""}
    ELSE Concats(pieces, n - 1) \cup {t \o p : t \in Concats(pieces, n - 1), p \in pieces}

EduPieces == {"PhD", "Master", "'s", "bachelor", "ASSOCIATE", " ", "ph", "d"}
EduTexts == Concats(EduPieces, MaxEduPieces)

\* <N>[+][ ]<unit><gap><tail>, matching or nearly matching the experience pattern
ExpClauses ==
    {ToStr[n] \o plus \o ws \o unit \o gap \o tail :
        n \in 0..MaxYears, plus \in {"", "+"}, ws \in {"", " "},
        unit \in {"Years", "year", "yrs", "yr", "y"},
        gap \in {" ", " of ", "of ", "", "\n of  "},
        tail \in {"experience", "EXP", "ex"}}

\* two clauses, the second with a leading zero
ExpPairs ==
    {ToStr[a] \o " years exp" \o sep \o "0" \o ToStr[b] \o "+ yrs of  experience" :
        a \in 0..MaxYears, b \in 0..MaxYears, sep \in {"", " and "}}

OtherTexts ==
    {"", " ", ".", "a", "Hello world. Bye.", "one  two\nthree", "5 years of experience",
     "20 years experience", "PhD in CS", "mastered", "5 years expert", "x15yr exp"}

Texts == EduTexts \cup ExpClauses \cup ExpPairs \cup OtherTexts

InitText ==
    /\ text \in Texts
    /\ op = "" /\ ret = 0
    /\ ml_scorer = new_vectorizer
    /\ job_desc = "" /\ resume = "" /\ scores = NotCalled /\ calls = 0
    /\ job_description = "" /\ uploaded_files = << >> /\ pc = "idle" /\ idx = 0
    /\ results = << >> /\ ranked = << >> /\ st_error = << >>

Call_extract_education ==
    /\ op' = "extract_education"
    /\ ret' = extract_education(text)
    /\ UNCHANGED <<text, ml_scorer, scoreVars, batchVars>>

Call_extract_experience ==
    /\ op' = "extract_experience"
    /\ ret' = extract_experience(text)
    /\ UNCHANGED <<text, ml_scorer, scoreVars, batchVars>>

Call_DocumentProcessor_get_document_stats ==
    /\ op' = "DocumentProcessor.get_document_stats"
    /\ ret' = DocumentProcessor_get_document_stats(text)
    /\ UNCHANGED <<text, ml_scorer, scoreVars, batchVars>>

Call_PDFProcessor_get_document_stats ==
    /\ op' = "PDFProcessor.get_document_stats"
    /\ ret' = PDFProcessor_get_document_stats(text)
    /\ UNCHANGED <<text, ml_scorer, scoreVars, batchVars>>

NextText ==
    \/ Call_extract_education
    \/ Call_extract_experience
    \/ Call_DocumentProcessor_get_document_stats
    \/ Call_PDFProcessor_get_document_stats

SpecText == InitText /\ [][NextText]_vars

(***************************************************************************)
(* SpecExtract: extract_text applied to one uploaded file, for file names   *)
(* with and without the supported extensions, in any case, readable or not. *)
(***************************************************************************)
FileStems == {"cv", "My.Resume", "a.pdf", "x.docx", ""}
FileExtensions ==
    {".pdf", ".PDF", ".Pdf", ".docx", ".DOCX", ".DocX", ".doc", ".DOC", ".txt", "",
     ".pdfx", "pdf", "docx", ".docx.bak", ".pdf ", ".rtf"}
FileContents == {"", "  Python developer\n", "PhD"}

ExtractFiles ==
    {[name |-> stem \o ext, readable |-> r, content |-> c] :
        stem \in FileStems, ext \in FileExtensions, r \in BOOLEAN, c \in FileContents}

InitExtract ==
    /\ uploaded_files \in {<<file>> : file \in ExtractFiles}
    /\ text = "" /\ op = "" /\ ret = 0
    /\ ml_scorer = new_vectorizer
    /\ job_desc = "" /\ resume = "" /\ scores = NotCalled /\ calls = 0
    /\ job_description = "" /\ pc = "idle" /\ idx = 0
    /\ results = << >> /\ ranked = << >> /\ st_error = << >>

\* doc_processor.extract_text(file) on the uploaded file
Call_extract_text ==
    /\ op' = "extract_text"
    /\ ret' = extract_text(uploaded_files[1])
    /\ UNCHANGED <<text, ml_scorer, scoreVars, batchVars>>

NextExtract == Call_extract_text

SpecExtract == InitExtract /\ [][NextExtract]_vars

(***************************************************************************)
(* Properties of calculate_advanced_scores (SpecScore)                      *)
(***************************************************************************)
Returned == scores.called /\ scores.raised = ""

Abs(n) == IF n < 0 THEN -n ELSE n

NoDuplicates(l) == \A i, j \in 1..Len(l) : l[i] = l[j] => i = j

\* the five numeric scores of a ScoreRecord, in hundredths of a percent
NumericScores(v) ==
    {v.content_similarity, v.skills_match, v.education_level, v.experience_level,
     v.overall_score}

\* C1: in every returned ScoreRecord each of the five numeric scores lies between 0
\* and 100, and overall_score equals 0.3 * content_similarity + 0.3 * skills_match
\* + 0.2 * education_level + 0.2 * experience_level up to a rounding tolerance of
\* 0.01 (here: ten times the overall score and the sum weighted in tenths differ by
\* at most ten hundredths).
C1_ScoresInRangeAndWeighted ==
    Returned =>
        /\ \A x \in NumericScores(scores.value) : x \in 0..10000
        /\ Abs(10 * scores.value.overall_score
               - (3 * scores.value.content_similarity + 3 * scores.value.skills_match
                  + 2 * scores.value.education_level + 2 * scores.value.experience_level))
             <= 10

\* a returned record with four positive sub-scores, all different, whose overall
\* score is not exactly the weighted sum of the rounded sub-scores
C1_Witness ==
    /\ Returned
    /\ scores.value.content_similarity > 0
    /\ scores.value.skills_match > 0
    /\ scores.value.experience_level > 0
    /\ Cardinality(NumericScores(scores.value)) = 5
    /\ 10 * scores.value.overall_score
         # 3 * scores.value.content_similarity + 3 * scores.value.skills_match
           + 2 * scores.value.education_level + 2 * scores.value.experience_level

\* a document of which the vectorizer keeps no term
NoTerms(doc) == analyze[doc] = << >>

\* C5: when the job description or the resume text is empty or has no usable
\* terms, the call raises nothing and returns a record whose content_similarity is 0.
C5_EmptyInputsScoreZero ==
    (scores.called /\ (NoTerms(job_desc) \/ NoTerms(resume))) =>
        (scores.raised = "" /\ scores.value.content_similarity = 0)

\* C6: matched_skills and missing_skills of a returned record partition the skills
\* of the job description: matched is jobSkills /\ resumeSkills, missing is
\* jobSkills \ resumeSkills, they are disjoint, their union is jobSkills, and
\* neither list holds a skill twice.
C6_SkillsPartition ==
    Returned =>
        \E jobSkills \in {ToSet(extract_skills(job_desc))},
           resumeSkills \in {ToSet(extract_skills(resume))},
           matched \in {ToSet(scores.value.matched_skills)},
           missing \in {ToSet(scores.value.missing_skills)} :
            /\ matched = jobSkills \cap resumeSkills
            /\ missing = jobSkills \ resumeSkills
            /\ matched \cap missing = {}
            /\ matched \cup missing = jobSkills
            /\ NoDuplicates(scores.value.matched_skills)
            /\ NoDuplicates(scores.value.missing_skills)

\* a returned record with matched and missing skills, the resume having a skill the
\* job description does not ask for
C6_Witness ==
    /\ Returned
    /\ scores.value.matched_skills # << >>
    /\ scores.value.missing_skills # << >>
    /\ ToSet(extract_skills(resume)) \ ToSet(extract_skills(job_desc)) # {}

\* C7: with at least one recognised skill in the job description, the skills
\* sub-score of a returned record is |jobSkills /\ resumeSkills| / |jobSkills| as a
\* percentage rounded to two decimals; with none it is 0.0 whatever the resume
\* holds, and no call ends in a division error.
C7_SkillsScore ==
    /\ scores.raised # "ZeroDivisionError"
    /\ Returned =>
        \E jobSkills \in {ToSet(extract_skills(job_desc))},
           resumeSkills \in {ToSet(extract_skills(resume))} :
            IF jobSkills = {}
            THEN scores.value.skills_match = 0
            ELSE 2 * Abs(scores.value.skills_match * Cardinality(jobSkills)
                         - 10000 * Cardinality(jobSkills \cap resumeSkills))
                   <= Cardinality(jobSkills)

\* a returned record for a job description without skills and a resume with some
C7_Witness ==
    /\ Returned
    /\ extract_skills(job_desc) = << >>
    /\ extract_skills(resume) # << >>
    /\ scores.value.skills_match = 0

\* a returned record whose skills sub-score is a proper fraction, the resume
\* holding more skills than it shares with the job description
C7_WitnessFraction ==
    /\ Returned
    /\ scores.value.skills_match \in 1..9999
    /\ Cardinality(ToSet(extract_skills(resume)))
         > Cardinality(ToSet(extract_skills(resume)) \cap ToSet(extract_skills(job_desc)))

(***************************************************************************)
(* Properties of a reused MLScorer (SpecReuse)                              *)
(***************************************************************************)
\* C4: the outcome of calculate_advanced_scores(jobDescription, resumeText) on a
\* scorer that served earlier calls is the outcome of the same call on a new
\* scorer: the vectorizer is refitted on the current pair only.
C4_IndependentOfEarlierCalls ==
    scores.called =>
        scores = Outcome(calculate_advanced_scores(new_vectorizer, job_desc, resume))

\* a record returned by the second call on a scorer, with a positive similarity
C4_Witness ==
    /\ calls >= 2
    /\ Returned
    /\ scores.value.content_similarity \in 1..9999

(***************************************************************************)
(* Properties of process_resumes (Spec)                                     *)
(***************************************************************************)
Finished == pc \in {"done", "error"}

\* the uploaded files whose text extraction raises
Unreadable == {k \in 1..Len(uploaded_files) : extract_text(uploaded_files[k]).raised # ""}

\* the errors shown for the k-th uploaded file
ErrorsOf(k) == {e \in 1..Len(st_error) : st_error[e].file = k}

\* C2: a document whose text extraction fails does not abort the batch: once the
\* run is over every other uploaded document has its record in the displayed
\* results, and exactly one failure is reported for each failing document.
\* (Runs in which the scorer raises are left aside.)
C2_FailureDoesNotAbortBatch ==
    (Finished /\ \A e \in 1..Len(st_error) : st_error[e].file \in Unreadable) =>
        \A k \in 1..Len(uploaded_files) :
            IF k \in Unreadable
            THEN Cardinality(ErrorsOf(k)) = 1
            ELSE \E i \in 1..Len(ranked) :
                    /\ ranked[i].filename = uploaded_files[k].name
                    /\ ranked[i].text = extract_text(uploaded_files[k]).text

\* C3: process_resumes returns the records, one per uploaded file, in
\* non-increasing order of overall_score, records of equal score in upload order.
C3_StableDescendingOrder ==
    pc = "done" =>
        /\ Len(results) = Len(uploaded_files)
        /\ \A k \in 1..Len(results) : results[k].filename = uploaded_files[k].name
        /\ Len(ranked) = Len(results)
        /\ \E p \in Permutations(1..Len(results)) :
              /\ \A i \in 1..Len(ranked) : ranked[i] = results[p[i]]
              /\ \A i, j \in 1..Len(ranked) :
                    i < j => \/ overall(ranked[i]) > overall(ranked[j])
                             \/ /\ overall(ranked[i]) = overall(ranked[j])
                                /\ p[i] < p[j]

\* three records R1, R2, R3 with R1 and R3 tied below R2, ranked [R2, R1, R3]
C3_Witness ==
    /\ pc = "done"
    /\ Len(results) = 3
    /\ overall(results[1]) = overall(results[3])
    /\ overall(results[1]) < overall(results[2])
    /\ results[1] # results[3]
    /\ ranked = <<results[2], results[1], results[3]>>

(***************************************************************************)
(* Properties of the text functions (SpecText)                              *)
(***************************************************************************)
StatsOps == {"DocumentProcessor.get_document_stats", "PDFProcessor.get_document_stats"}

\* C8: get_document_stats of the empty text raises nothing and returns all zeros:
\* word_count, sentence_count, avg_word_length and char_count are 0.
C8_EmptyTextAllZeros ==
    (op \in StatsOps /\ text = "") =>
        /\ ret.word_count = 0
        /\ ret.sentence_count = 0
        /\ ret.avg_word_length = 0
        /\ ret.char_count = 0

\* every character of s from a up to b - 1 is a digit / white space
AllDigits(s, a, b) == \A k \in a..(b - 1) : IsDigit(Ch(s, k))
AllSpaces(s, a, b) == \A k \in a..(b - 1) : IsSpace(Ch(s, k))

\* s reads, behind the number that ends before d: an optional "+", optional white
\* space, a unit, optionally white space and "of", white space, and "exp"
ExperienceFollows(s, d) ==
    \E p \in {d} \cup {k \in {d + 1} : Ch(s, d) = "+"} :
    \E u \in p..Len(s) :
    \E unit \in {"years", "year", "yrs", "yr"} :
        /\ AllSpaces(s, p, u)
        /\ StartsWithAt(s, u, unit)
        /\ \E o \in {u + Len(unit)}
                    \cup {k + 2 : k \in {k \in (u + Len(unit) + 1)..Len(s) :
                                            /\ AllSpaces(s, u + Len(unit), k)
                                            /\ StartsWithAt(s, k, "of")}} :
           \E x \in (o + 1)..Len(s) :
                /\ AllSpaces(s, o, x)
                /\ StartsWithAt(s, x, "exp")

\* the numbers N of the occurrences of "<N>[+] year(s)/yr(s) [of] exp" in s
YearCounts(s) ==
    {ParseInt[SubSeq(s, i, d - 1)] :
        <<i, d>> \in {c \in (1..Len(s)) \X (2..(Len(s) + 1)) :
                        /\ c[1] < c[2]
                        /\ AllDigits(s, c[1], c[2])
                        /\ ExperienceFollows(s, c[2])}}

C9_WitnessCapped ==
    /\ op = "extract_experience"
    /\ \E n \in YearCounts(lower[text]) : n > 15
    /\ ret = Scale

\* the score the specification gives to each education keyword
EducationKeywordScore ==
    [phd |-> Scale, master |-> (8 * Scale) \div 10, bachelor |-> (6 * Scale) \div 10,
     associate |-> (4 * Scale) \div 10]

\* C10: extract_education returns the largest of the scores 1.0 (phd), 0.8
\* (master), 0.6 (bachelor), 0.4 (associate) of the keywords that occur in the
\* text case-insensitively as substrings, and the baseline 0.3 when none occurs;
\* no result is below the baseline or above 1.0.
C10_EducationScore ==
    op = "extract_education" =>
        \E found \in {{k \in DOMAIN EducationKeywordScore : Contains[lower[text], k]}} :
            /\ ret = IF found = {} THEN (3 * Scale) \div 10
                     ELSE Max({EducationKeywordScore[k] : k \in found})
            /\ ret >= (3 * Scale) \div 10
            /\ ret <= Scale

\* a text with two keywords in other than lower case, the lower degree first
C10_Witness ==
    /\ op = "extract_education"
    /\ Contains[text, "ASSOCIATE"]
    /\ Contains[text, "Master"]
    /\ ~Contains[text, "PhD"]
    /\ ret = (8 * Scale) \div 10

\* a text without any keyword
C10_WitnessBaseline ==
    /\ op = "extract_education"
    /\ text # ""
    /\ \A k \in DOMAIN EducationKeywordScore : ~Contains[lower[text], k]
    /\ ret = (3 * Scale) \div 10

(***************************************************************************)
(* Properties of extract_text (SpecExtract)                                 *)
(***************************************************************************)
\* the upper-case form of each letter of the two supported extensions
UpperOf ==
    [c \in {".", "p", "d", "f", "o", "c", "x"} |->
        CASE c = "p" -> "P" [] c = "d" -> "D" [] c = "f" -> "F" [] c = "o" -> "O"
          [] c = "c" -> "C" [] c = "x" -> "X" [] OTHER -> c]

\* name ends in ext, each letter in either case
HasExtension(name, ext) ==
    /\ Len(name) >= Len(ext)
    /\ \A k \in 1..Len(ext) :
          Ch(name, Len(name) - Len(ext) + k) \in {Ch(ext, k), UpperOf[Ch(ext, k)]}

Supported(name) == HasExtension(name, ".pdf") \/ HasExtension(name, ".docx")

C11_WitnessUpperCase ==
    /\ op = "extract_text"
    /\ EndsWith[uploaded_files[1].name, ".DOCX"]
    /\ ret.raised = ""
    /\ ret.text = "Python developer"

====
